---- MODULE Spec2Model ----
(***************************************************************************)
(* amodinfo: the module-info.json indexer (src/src/modinfo.rs) and the     *)
(* Android.bp source locator (src/src/blueprint.rs).                       *)
(*                                                                         *)
(* A text (&str) is a sequence of one-character strings.  Positions in the *)
(* operators below are TLA+ positions (1-based); line numbers and indexes  *)
(* that the program reports are kept as the program computes them.         *)
(***************************************************************************)
EXTENDS Integers, Sequences, FiniteSets, TLC

NL == "\n"
QUOTE == "\""

(***************************************************************************)
(* str primitives used by the code                                         *)
(***************************************************************************)

\* str::starts_with(prefix)
StartsWith(s, p) == Len(s) >= Len(p) /\ SubSeq(s, 1, Len(p)) = p

\* str::ends_with(char)
EndsWith(s, c) == Len(s) >= 1 /\ s[Len(s)] = c

\* &s[n..]: the text after the first n characters
From(s, n) == SubSeq(s, n + 1, Len(s))

\* position of the first c at or after position i, 0 when there is none
FindFrom(s, c, i) ==
    LET hits == {j \in i..Len(s) : s[j] = c}
    IN IF hits = {} THEN 0 ELSE CHOOSE j \in hits : \A k \in hits : j <= k

\* str::find(char) as a 0-based offset; -1 stands for None
StrFind(s, c) == FindFrom(s, c, 1) - 1

\* str::split('\n'): the pieces between line feeds, the last one included
RECURSIVE SplitOn(_)
SplitOn(s) ==
    LET i == FindFrom(s, NL, 1)
    IN IF i = 0 THEN <<s>>
       ELSE <<SubSeq(s, 1, i - 1)>> \o SplitOn(From(s, i))

\* str::split_terminator('\n'): as split, without a final empty piece
split_terminator(s) ==
    LET p == SplitOn(s)
    IN IF p[Len(p)] = <<>> THEN SubSeq(p, 1, Len(p) - 1) ELSE p

\* u8 values of the characters: str's Ord compares texts bytewise
Byte(c) ==
    CASE c = NL -> 10 [] c = " " -> 32 [] c = QUOTE -> 34 [] c = "," -> 44
      [] c = "." -> 46 [] c = ":" -> 58 [] c = "[" -> 91 [] c = "]" -> 93
      [] c = "_" -> 95 [] c = "a" -> 97 [] c = "b" -> 98 [] c = "c" -> 99
      [] c = "d" -> 100 [] c = "e" -> 101 [] c = "f" -> 102 [] c = "g" -> 103
      [] c = "h" -> 104 [] c = "i" -> 105 [] c = "l" -> 108 [] c = "m" -> 109
      [] c = "n" -> 110 [] c = "o" -> 111 [] c = "p" -> 112 [] c = "r" -> 114
      [] c = "s" -> 115 [] c = "t" -> 116 [] c = "u" -> 117 [] c = "x" -> 120
      [] c = "z" -> 122 [] c = "{" -> 123 [] c = "}" -> 125

\* str::cmp: "Less", "Equal" or "Greater", lexicographic on the bytes
RECURSIVE StrCmp(_, _)
StrCmp(a, b) ==
    IF a = <<>> /\ b = <<>> THEN "Equal"
    ELSE IF a = <<>> THEN "Less"
    ELSE IF b = <<>> THEN "Greater"
    ELSE IF Byte(a[1]) < Byte(b[1]) THEN "Less"
    ELSE IF Byte(a[1]) > Byte(b[1]) THEN "Greater"
    ELSE StrCmp(Tail(a), Tail(b))

(***************************************************************************)
(* ParseError and Result values                                            *)
(***************************************************************************)

NoError == [lineno |-> 0, message |-> "none"]

ParseError(lineno, message) == [lineno |-> lineno, message |-> message]

\* Result<_, ParseError> of the scanner: value is a ModuleInfo's data, or one pair
Ok(v) == [ok |-> TRUE, value |-> v, err |-> NoError]

Err(e) == [ok |-> FALSE, value |-> <<>>, err |-> e]

(***************************************************************************)
(* ModuleInfo::try_from                                                    *)
(***************************************************************************)

\* line.starts_with("  \"")
HasNameElement(line) == StartsWith(line, <<" ", " ", QUOTE>>)

\* line.starts_with("\": {"), line being the text from the name's end on
NameTerminatorOk(line) == StartsWith(line, <<QUOTE, ":", " ", "{">>)

\* StripComma with every trailing comma dropped (trim_end_matches(','))
RECURSIVE StripAllCommas(_)
StripAllCommas(json) ==
    IF EndsWith(json, ",") THEN StripAllCommas(SubSeq(json, 1, Len(json) - 1))
    ELSE json

\* 'if json.ends_with(',')': exactly one trailing comma is dropped
StripComma(json) ==
    IF EndsWith(json, ",") THEN SubSeq(json, 1, Len(json) - 1) ELSE json

\* JsonTerminated with the check left out
JsonTerminatedUnchecked(json) == TRUE

\* json.ends_with('}')
JsonTerminated(json) == EndsWith(json, "}")

\* LineNumber without the omitted first line: pair.0 + 1
LineNumberOffByOne(i) == i + 1

\* the line number of the body line at 0-based index i: pair.0 + 2
LineNumber(i) == i + 2

\* the body of the for loop: split '  "name": { ... }[,]' into (name, json)
parse_line(line, lineno) ==
    IF ~HasNameElement(line)
    THEN Err(ParseError(lineno, "no <name> element"))
    ELSE LET l1 == From(line, 3)
             name_end == StrFind(l1, QUOTE)
         IN IF name_end < 0
            THEN Err(ParseError(lineno, "<name> element not terminated"))
            ELSE LET name == SubSeq(l1, 1, name_end)
                     l2 == From(l1, name_end)
                 IN IF ~NameTerminatorOk(l2)
                    THEN Err(ParseError(lineno, "bad <name> terminator"))
                    ELSE LET json == StripComma(From(l2, 3))
                         IN IF ~JsonTerminated(json)
                            THEN Err(ParseError(lineno,
                                        "<json> element not terminated"))
                            ELSE Ok(<<name, json>>)

\* the for loop over the body lines: the first error returns, a good line
\* pushes its pair
RECURSIVE parse_lines(_, _, _)
parse_lines(lines, i, data) ==
    IF i >= Len(lines) THEN Ok(data)
    ELSE LET r == parse_line(lines[i + 1], LineNumber(i))
         IN IF ~r.ok THEN r
            ELSE parse_lines(lines, i + 1, Append(data, r.value))

\* the wrapper checks, then the loop
try_from(data) ==
    IF ~StartsWith(data, <<"{", NL>>)
    THEN Err(ParseError(1, "bad first line"))
    ELSE LET lines == Tail(split_terminator(data))
             n_lines == Len(lines)
         IN IF n_lines = 0
            THEN Err(ParseError(1, "too few lines"))
            ELSE IF lines[n_lines] # <<"}">>
            THEN Err(ParseError(n_lines, "bad last line"))
            ELSE parse_lines(SubSeq(lines, 1, n_lines - 1), 0, <<>>)

(***************************************************************************)
(* serde_json::from_str::<Module>: the JSON reader and the derived         *)
(* Deserialize of struct Module.  The reader covers objects, arrays and    *)
(* strings without escapes; any other character outside a string is a      *)
(* syntax error (numbers and literals do not occur in the texts below).    *)
(***************************************************************************)

Tok(t, v) == [t |-> t, v |-> v]

IsWs(c) == c \in {" ", "\t", NL, "\r"}

IsPunct(c) == c \in {"{", "}", "[", "]", ":", ","}

\* the tokens of s from position i on; a "bad" token ends the sequence
RECURSIVE Lex(_, _)
Lex(s, i) ==
    IF i > Len(s) THEN <<>>
    ELSE IF IsWs(s[i]) THEN Lex(s, i + 1)
    ELSE IF IsPunct(s[i]) THEN <<Tok(s[i], <<>>)>> \o Lex(s, i + 1)
    ELSE IF s[i] = QUOTE
    THEN LET j == FindFrom(s, QUOTE, i + 1)
         IN IF j = 0 THEN <<Tok("bad", <<>>)>>
            ELSE <<Tok("str", SubSeq(s, i + 1, j - 1))>> \o Lex(s, j + 1)
    ELSE <<Tok("bad", <<>>)>>

\* a JSON value: kind "str" (text s), "arr" (items: values) or "obj"
\* (items: <<key, value>> pairs in the order of the text)
JStr(s) == [k |-> "str", s |-> s, items |-> <<>>]

JArr(items) == [k |-> "arr", s |-> <<>>, items |-> items]

JObj(items) == [k |-> "obj", s |-> <<>>, items |-> items]

Parsed(v, next) == [ok |-> TRUE, val |-> v, next |-> next]

SyntaxError == [ok |-> FALSE, val |-> JStr(<<>>), next |-> 0]

TokIs(t, i, kind) == i <= Len(t) /\ t[i].t = kind

RECURSIVE ParseValue(_, _), ParseElems(_, _, _), ParseMembers(_, _, _)
\* the value that starts at token i
ParseValue(t, i) ==
    IF TokIs(t, i, "str") THEN Parsed(JStr(t[i].v), i + 1)
    ELSE IF TokIs(t, i, "[")
    THEN IF TokIs(t, i + 1, "]") THEN Parsed(JArr(<<>>), i + 2)
         ELSE ParseElems(t, i + 1, <<>>)
    ELSE IF TokIs(t, i, "{")
    THEN IF TokIs(t, i + 1, "}") THEN Parsed(JObj(<<>>), i + 2)
         ELSE ParseMembers(t, i + 1, <<>>)
    ELSE SyntaxError

\* the elements of an array after '[' or ',', up to its ']'
ParseElems(t, i, acc) ==
    LET v == ParseValue(t, i)
    IN IF ~v.ok THEN SyntaxError
       ELSE IF TokIs(t, v.next, ",")
       THEN ParseElems(t, v.next + 1, Append(acc, v.val))
       ELSE IF TokIs(t, v.next, "]")
       THEN Parsed(JArr(Append(acc, v.val)), v.next + 1)
       ELSE SyntaxError

\* the members of an object after '{' or ',', up to its '}'
ParseMembers(t, i, acc) ==
    IF ~(TokIs(t, i, "str") /\ TokIs(t, i + 1, ":")) THEN SyntaxError
    ELSE LET v == ParseValue(t, i + 2)
         IN IF ~v.ok THEN SyntaxError
            ELSE IF TokIs(t, v.next, ",")
            THEN ParseMembers(t, v.next + 1, Append(acc, <<t[i].v, v.val>>))
            ELSE IF TokIs(t, v.next, "}")
            THEN Parsed(JObj(Append(acc, <<t[i].v, v.val>>)), v.next + 1)
            ELSE SyntaxError

\* the whole text is one JSON value: trailing characters are an error
ParseJson(s) ==
    LET t == Lex(s, 1)
        v == ParseValue(t, 1)
    IN IF v.ok /\ v.next = Len(t) + 1 THEN v ELSE SyntaxError

\* the wire keys of struct Module
K_module_name == <<"m", "o", "d", "u", "l", "e", "_", "n", "a", "m", "e">>

K_path == <<"p", "a", "t", "h">>

K_installed == <<"i", "n", "s", "t", "a", "l", "l", "e", "d">>

K_dependencies == <<"d", "e", "p", "e", "n", "d", "e", "n", "c", "i", "e", "s">>

K_class == <<"c", "l", "a", "s", "s">>

K_tags == <<"t", "a", "g", "s">>

K_test_config == <<"t", "e", "s", "t", "_", "c", "o", "n", "f", "i", "g">>

\* struct Module: every field is declared without a default, so the derived
\* Deserialize requires each of them
RequiredKeys ==
    {K_module_name, K_path, K_installed, K_dependencies, K_class, K_tags,
     K_test_config}

\* Vec<&str>: an array whose items are all strings
IsStrList(v) == v.k = "arr" /\ \A i \in 1..Len(v.items) : v.items[i].k = "str"

StrList(v) == [i \in 1..Len(v.items) |-> v.items[i].s]

\* the type the field of a key is declared with
FieldTypeOk(key, v) == IF key = K_module_name THEN v.k = "str" ELSE IsStrList(v)

NoModule ==
    [name |-> <<>>, path |-> <<>>, installed |-> <<>>, dependencies |-> <<>>,
     class |-> <<>>, tags |-> <<>>, test_config |-> <<>>]

Decoded(m) == [ok |-> TRUE, module |-> m]

DecodeError == [ok |-> FALSE, module |-> NoModule]

\* the derived visitor over a JSON object: unknown keys are ignored, a field
\* given twice, a field of the wrong type and a missing field are errors
DeserializeModule(obj) ==
    LET members == obj.items
        At(key) == {i \in 1..Len(members) : members[i][1] = key}
        Value(key) == members[CHOOSE i \in At(key) : TRUE][2]
    IN IF obj.k # "obj" THEN DecodeError
       ELSE IF \E key \in RequiredKeys : Cardinality(At(key)) # 1
       THEN DecodeError
       ELSE IF \E key \in RequiredKeys : ~FieldTypeOk(key, Value(key))
       THEN DecodeError
       ELSE Decoded([name |-> Value(K_module_name).s,
                     path |-> StrList(Value(K_path)),
                     installed |-> StrList(Value(K_installed)),
                     dependencies |-> StrList(Value(K_dependencies)),
                     class |-> StrList(Value(K_class)),
                     tags |-> StrList(Value(K_tags)),
                     test_config |-> StrList(Value(K_test_config))])

\* serde_json::from_str(json)
from_str(json) ==
    LET v == ParseJson(json)
    IN IF ~v.ok THEN DecodeError ELSE DeserializeModule(v.val)

(***************************************************************************)
(* ModuleInfo::module_names and ModuleInfo::find                           *)
(***************************************************************************)

module_names(data) == [i \in 1..Len(data) |-> data[i][1]]

\* slice::binary_search_by as the standard library has implemented it: with
\* an early return on Equal ("classic"), and without one ("branchless").
\* Both return a 0-based index, or -1 for Err(_).  On a slice that is not
\* sorted the result is unspecified; these are the results the two produce.
SearchImpls == {"classic", "branchless"}

RECURSIVE SearchClassic(_, _, _, _)
SearchClassic(data, name, left, right) ==
    IF left >= right THEN -1
    ELSE LET mid == left + ((right - left) \div 2)
             cmp == StrCmp(data[mid + 1][1], name)
         IN IF cmp = "Less" THEN SearchClassic(data, name, mid + 1, right)
            ELSE IF cmp = "Greater" THEN SearchClassic(data, name, left, mid)
            ELSE mid

RECURSIVE SearchBranchless(_, _, _, _)
SearchBranchless(data, name, base, size) ==
    IF size > 1
    THEN LET half == size \div 2
             mid == base + half
             cmp == StrCmp(data[mid + 1][1], name)
         IN SearchBranchless(data, name,
                             IF cmp = "Greater" THEN base ELSE mid, size - half)
    ELSE IF StrCmp(data[base + 1][1], name) = "Equal" THEN base ELSE -1

binary_search(impl, data, name) ==
    IF Len(data) = 0 THEN -1
    ELSE IF impl = "classic" THEN SearchClassic(data, name, 0, Len(data))
    ELSE SearchBranchless(data, name, 0, Len(data))

\* Option<Result<Module, ParseError>>
None == [some |-> FALSE, ok |-> FALSE, module |-> NoModule, err |-> NoError]

SomeOk(m) == [some |-> TRUE, ok |-> TRUE, module |-> m, err |-> NoError]

SomeErr(e) == [some |-> TRUE, ok |-> FALSE, module |-> NoModule, err |-> e]

\* find with a decode error turned into a miss (from_str(json).ok()?)
find_error_as_miss(impl, data, name) ==
    LET index == binary_search(impl, data, name)
    IN IF index < 0 THEN None
       ELSE LET x == from_str(data[index + 1][2])
            IN IF x.ok THEN SomeOk(x.module) ELSE None

\* find that decodes the first entry instead of the entry found (self.data[0])
find_first_entry(impl, data, name) ==
    LET index == binary_search(impl, data, name)
    IN IF index < 0 THEN None
       ELSE LET x == from_str(data[1][2])
            IN IF x.ok THEN SomeOk(x.module)
               ELSE SomeErr(ParseError(index + 2, "bad JSON"))

\* find: None on a search miss, else the decoded payload of the entry found;
\* a decode error becomes a ParseError at line index + 2 (the text of serde's
\* complaint, appended to the message, is not modelled)
find(impl, data, name) ==
    LET index == binary_search(impl, data, name)
    IN IF index < 0 THEN None
       ELSE LET x == from_str(data[index + 1][2])
            IN IF x.ok THEN SomeOk(x.module)
               ELSE SomeErr(ParseError(index + 2, "bad JSON"))

(***************************************************************************)
(* blueprint::find_module_source                                           *)
(***************************************************************************)

\* [_a-zA-Z0-9]
IsIdent(c) ==
    c \in {"_", "a", "b", "c", "d", "e", "f", "g", "h", "i", "l", "m", "n", "o",
           "p", "r", "s", "t", "u", "x", "z"}

\* [ \t]
IsBlank(c) == c \in {" ", "\t"}

\* \s
IsSpace(c) == c \in {" ", "\t", NL, "\r", "\f"}

\* the character classes of the two patterns
InClass(class, c) ==
    CASE class = "blank" -> IsBlank(c)
      [] class = "ident" -> IsIdent(c)
      [] class = "space" -> IsSpace(c)

\* the first position at or after i whose character is not in the class
\* (a greedy repetition of a character class), Len(s) + 1 at the end
RECURSIVE SkipWhile(_, _, _)
SkipWhile(s, i, class) ==
    IF i > Len(s) THEN Len(s) + 1
    ELSE IF InClass(class, s[i]) THEN SkipWhile(s, i + 1, class)
    ELSE i

\* (?m)^ : the start of the text or the position after a line feed
AtLineStart(s, i) == i = 1 \/ s[i - 1] = NL

\* .*?^\} from position q on: the position of the first '}' at the start of
\* a line, 0 when there is none
RECURSIVE LazyToClose(_, _)
LazyToClose(s, q) ==
    IF q > Len(s) THEN 0
    ELSE IF s[q] = "}" /\ AtLineStart(s, q) THEN q
    ELSE LazyToClose(s, q + 1)

\* regex_module, (?ms)[ \t]*[_a-zA-Z0-9]+\s*\{.*?^\} , matched at position p:
\* the position of the closing brace of the match, 0 when there is no match
ModuleMatchEnd(s, p) ==
    LET a == SkipWhile(s, p, "blank")
        b == SkipWhile(s, a, "ident")
        c == SkipWhile(s, b, "space")
    IN IF b = a \/ c > Len(s) THEN 0
       ELSE IF s[c] # "{" THEN 0
       ELSE LazyToClose(s, c + 1)

\* captures_iter: the leftmost match at or after position p, then the
\* matches after its end; each match is <<first position, last position>>
RECURSIVE captures_iter(_, _)
captures_iter(s, p) ==
    IF p > Len(s) THEN <<>>
    ELSE LET q == ModuleMatchEnd(s, p)
         IN IF q = 0 THEN captures_iter(s, p + 1)
            ELSE <<<<p, q>>>> \o captures_iter(s, q + 1)

\* the name, spliced into the pattern by format! as it is, read as a regex
\* at position i of s: '.' matches any character but a line feed, every
\* other character of the names used here matches itself
NamePatternAt(s, i, name) ==
    /\ i + Len(name) - 1 <= Len(s)
    /\ \A k \in 1..Len(name) :
          IF name[k] = "." THEN s[i + k - 1] # NL ELSE s[i + k - 1] = name[k]

\* regex_name, (?m)^\s*name:\s*"{}" , is_match on the text s
regex_name_is_match(s, name) ==
    \E i \in 1..Len(s) :
        /\ AtLineStart(s, i)
        /\ LET j == SkipWhile(s, i, "space")
               k == SkipWhile(s, j + 5, "space")
           IN /\ j + 4 <= Len(s)
              /\ SubSeq(s, j, j + 4) = <<"n", "a", "m", "e", ":">>
              /\ k <= Len(s) /\ s[k] = QUOTE
              /\ NamePatternAt(s, k + 1, name)
              /\ k + Len(name) + 1 <= Len(s)
              /\ s[k + Len(name) + 1] = QUOTE

\* Option<&str>
NoSource == [some |-> FALSE, text |-> <<>>]

SomeSource(text) == [some |-> TRUE, text |-> text]

\* the for loop over the matches from the i-th on: the first one whose text
\* regex_name matches
RECURSIVE first_named(_, _, _, _)
first_named(haystack, name, caps, i) ==
    IF i > Len(caps) THEN NoSource
    ELSE LET match_ == SubSeq(haystack, caps[i][1], caps[i][2])
         IN IF regex_name_is_match(match_, name) THEN SomeSource(match_)
            ELSE first_named(haystack, name, caps, i + 1)

find_module_source(haystack, name) ==
    first_named(haystack, name, captures_iter(haystack, 1), 1)

(***************************************************************************)
(* The documents handed to try_from: a first wrapper line, body lines, a   *)
(* last wrapper line.  The body lines are the entry lines and the corrupt  *)
(* lines of test_try_from, the scenario entry of the specification, and    *)
(* lines that differ from them in one respect.  A document has at most     *)
(* MaxLines body lines of any kind, or at most MaxEntries entry lines      *)
(* between two good wrapper lines.                                         *)
(***************************************************************************)

MaxLines == 2

MaxEntries == 3

N_foo == <<"f", "o", "o">>

N_bar == <<"b", "a", "r">>

N_baz == <<"b", "a", "z">>

\* the names find is asked for: two that occur in documents, one that never does
QueryNames == {N_foo, N_bar, N_baz}

RECURSIVE Concat(_)
Concat(parts) == IF parts = <<>> THEN <<>> ELSE parts[1] \o Concat(Tail(parts))

Str(s) == <<QUOTE>> \o s \o <<QUOTE>>

Field(key, value) == Str(key) \o <<":", " ">> \o value

List(items) ==
    <<"[">> \o Concat([i \in 1..Len(items) |->
                         (IF i > 1 THEN <<",", " ">> ELSE <<>>) \o Str(items[i])])
            \o <<"]">>

Object(fields) ==
    <<"{", " ">> \o Concat([i \in 1..Len(fields) |->
                         (IF i > 1 THEN <<",", " ">> ELSE <<>>) \o fields[i]])
                 \o <<" ", "}">>

\* a payload with every field of struct Module
FullPayload(name) ==
    Object(<<Field(K_module_name, Str(name)), Field(K_path, List(<<<<"p">>>>)),
             Field(K_installed, List(<<>>)), Field(K_dependencies, List(<<>>)),
             Field(K_class, List(<<<<"c">>>>)), Field(K_tags, List(<<>>)),
             Field(K_test_config, List(<<>>))>>)

\* { "module_name": "foo", "path": ["p"], "installed": [], "class": ["c"] }
ScenarioPayload ==
    Object(<<Field(K_module_name, Str(N_foo)), Field(K_path, List(<<<<"p">>>>)),
             Field(K_installed, List(<<>>)), Field(K_class, List(<<<<"c">>>>))>>)

\* { ... }
DotsPayload == <<"{", " ", ".", ".", ".", " ", "}">>

\* {} }
ExtraBracePayload == <<"{", "}", " ", "}">>

EntryLine(name, payload, comma) ==
    <<" ", " ">> \o Str(name) \o <<":", " ">> \o payload \o comma

GoodLines ==
    {EntryLine(N_bar, FullPayload(N_bar), <<",">>),
     EntryLine(N_foo, FullPayload(N_foo), <<>>),
     EntryLine(N_foo, FullPayload(N_bar), <<",">>),
     EntryLine(N_foo, ScenarioPayload, <<>>),
     EntryLine(N_foo, DotsPayload, <<>>),
     EntryLine(N_foo, ExtraBracePayload, <<",">>)}

Dots == <<".", ".", ".">>

CorruptLines ==
    {\*   foo": { ... }
     <<" ", " ">> \o N_foo \o <<QUOTE, ":", " ", "{", " ">> \o Dots \o <<" ", "}">>,
     \*   "foo: { ... }
     <<" ", " ", QUOTE>> \o N_foo \o <<":", " ", "{", " ">> \o Dots \o <<" ", "}">>,
     \*   "foo": ... }
     <<" ", " ">> \o Str(N_foo) \o <<":", " ">> \o Dots \o <<" ", "}">>,
     \*   "foo": { ...
     <<" ", " ">> \o Str(N_foo) \o <<":", " ", "{", " ">> \o Dots \o <<" ">>,
     \*   "foo": { ... },,
     <<" ", " ">> \o Str(N_foo) \o <<":", " ">> \o DotsPayload \o <<",", ",">>,
     \* an empty line
     <<>>,
     \*  "foo: ...        (one leading space, no closing quote, no braces)
     <<" ", QUOTE>> \o N_foo \o <<":", " ">> \o Dots,
     \*   "foo: ...
     <<" ", " ", QUOTE>> \o N_foo \o <<":", " ">> \o Dots,
     \*   "foo": ...
     <<" ", " ">> \o Str(N_foo) \o <<":", " ">> \o Dots}

BodyLines == GoodLines \cup CorruptLines

FirstLines == {<<"{", NL>>, <<>>, <<"{">>}

LastLines == {<<"}", NL>>, <<"}">>, <<>>, <<"x", NL>>}

Bodies(lines, n) == UNION {[1..k -> lines] : k \in 0..n}

Document(first, body, last) ==
    first \o Concat([i \in 1..Len(body) |-> body[i] \o <<NL>>]) \o last

Documents ==
    {Document(first, body, last) :
        first \in FirstLines, body \in Bodies(BodyLines, MaxLines),
        last \in LastLines}
    \cup
    {Document(<<"{", NL>>, body, last) :
        body \in Bodies(GoodLines, MaxEntries), last \in {<<"}", NL>>, <<"}">>}}

(***************************************************************************)
(* The program: the document is indexed once, then queried.                *)
(***************************************************************************)

VARIABLES
    input,      \* the text handed to ModuleInfo::try_from
    pc,         \* "start", then "built" (Ok(ModuleInfo)) or "failed" (Err)
    modinfo,    \* ModuleInfo.data: the (name, json) pairs of the index
    error,      \* the ParseError of a failed try_from
    op,         \* the operation performed last
    names,      \* what the last module_names() returned
    query,      \* the name the last find was asked for, and the search used
    result,     \* what the last find returned
    haystack,   \* the Android.bp text handed to find_module_source
    needle,     \* the module name handed to find_module_source
    source      \* what the last find_module_source returned

vars == <<input, pc, modinfo, error, op, names, query, result, haystack, needle,
          source>>

bp_vars == <<haystack, needle, source>>

modinfo_vars == <<input, pc, modinfo, error, names, query, result>>

NoQuery == [name |-> <<>>, impl |-> "none"]

Init ==
    /\ input \in Documents
    /\ pc = "start"
    /\ modinfo = <<>>
    /\ error = NoError
    /\ op = "none"
    /\ names = <<>>
    /\ query = NoQuery
    /\ result = None
    /\ haystack = <<>>
    /\ needle = <<>>
    /\ source = NoSource

\* let modinfo = ModuleInfo::try_from(data)?
TryFrom ==
    /\ pc = "start"
    /\ LET r == try_from(input)
       IN /\ pc' = IF r.ok THEN "built" ELSE "failed"
          /\ modinfo' = r.value
          /\ error' = r.err
    /\ op' = "try_from"
    /\ UNCHANGED <<input, names, query, result>>
    /\ UNCHANGED bp_vars

\* modinfo.module_names()
ModuleNames ==
    /\ pc = "built"
    /\ names' = module_names(modinfo)
    /\ op' = "module_names"
    /\ UNCHANGED <<input, pc, modinfo, error, query, result>>
    /\ UNCHANGED bp_vars

\* modinfo.find(name): takes &self, the index is left as it is
Find ==
    /\ pc = "built"
    /\ \E name \in QueryNames, impl \in SearchImpls :
          /\ query' = [name |-> name, impl |-> impl]
          /\ result' = find(impl, modinfo, name)
    /\ modinfo' = modinfo
    /\ op' = "find"
    /\ UNCHANGED <<input, pc, error, names>>
    /\ UNCHANGED bp_vars

Next == TryFrom \/ ModuleNames \/ Find

Spec == Init /\ [][Next]_vars

(***************************************************************************)
(* The source locator on its own: an Android.bp text of at most MaxBlocks  *)
(* rule blocks, searched for a module name.  Rule headers and closing      *)
(* braces stand at column 0, as in the Android.bp of the tests.            *)
(***************************************************************************)

MaxBlocks == 2

N_ab == <<"a", "b">>

N_a_dot == <<"a", ".">>

N_b == <<"b">>

N_x == <<"x">>

\* cc {\n name: "NAME",\n}\n
NamedBlock(name) ==
    <<"c", "c", " ", "{", NL, " ", "n", "a", "m", "e", ":", " ">> \o Str(name)
        \o <<",", NL, "}", NL>>

\* cc {\n x: {\n },\n  name: "NAME",\n}\n   (a nested, indented pair of braces)
NestedBlock(name) ==
    <<"c", "c", " ", "{", NL, " ", "x", ":", " ", "{", NL, " ", "}", ",", NL,
      " ", " ", "n", "a", "m", "e", ":", " ">> \o Str(name) \o <<",", NL, "}", NL>>

\* cc {\n}\n   (no name line)
UnnamedBlock == <<"c", "c", " ", "{", NL, "}", NL>>

RuleBlocks ==
    {NamedBlock(N_ab), NamedBlock(N_a_dot), NamedBlock(N_b), NestedBlock(N_b),
     UnnamedBlock, <<NL>>}

Blueprints ==
    {Concat(blocks) : blocks \in UNION {[1..n -> RuleBlocks] : n \in 0..MaxBlocks}}

ModuleNamesAsked == {N_ab, N_a_dot, N_b, N_x}

InitBp ==
    /\ haystack \in Blueprints
    /\ needle = <<>>
    /\ source = NoSource
    /\ op = "none"
    /\ input = <<>>
    /\ pc = "start"
    /\ modinfo = <<>>
    /\ error = NoError
    /\ names = <<>>
    /\ query = NoQuery
    /\ result = None

\* blueprint::find_module_source(&blueprint_contents, &name)
FindModuleSource ==
    /\ \E name \in ModuleNamesAsked :
          /\ needle' = name
          /\ source' = find_module_source(haystack, name)
    /\ op' = "find_module_source"
    /\ UNCHANGED haystack
    /\ UNCHANGED modinfo_vars

NextBp == FindModuleSource

SpecBp == InitBp /\ [][NextBp]_vars


(***************************************************************************)
(* The document as its reader sees it: numbered lines, each ended by a     *)
(* line feed or by the end of the text.                                    *)
(***************************************************************************)

LineFeeds(doc) == {i \in 1..Len(doc) : doc[i] = NL}

NumLines(doc) ==
    Cardinality(LineFeeds(doc))
        + (IF Len(doc) > 0 /\ doc[Len(doc)] # NL THEN 1 ELSE 0)

\* the position of the k-th line feed, 0 for k = 0
RECURSIVE LineFeedAt(_, _)
LineFeedAt(doc, k) ==
    IF k = 0 THEN 0 ELSE FindFrom(doc, NL, LineFeedAt(doc, k - 1) + 1)

\* line k of the document, 1-based, without its line feed
LineAt(doc, k) ==
    SubSeq(doc, LineFeedAt(doc, k - 1) + 1,
           IF k <= Cardinality(LineFeeds(doc))
           THEN LineFeedAt(doc, k) - 1 ELSE Len(doc))

\* the wrapper lines are '{' and '}'
GoodFirstLine(doc) == StartsWith(doc, <<"{", NL>>)

GoodLastLine(doc) == NumLines(doc) >= 2 /\ LineAt(doc, NumLines(doc)) = <<"}">>

\* the line without one trailing comma
WithoutComma(line) ==
    IF Len(line) > 0 /\ line[Len(line)] = ","
    THEN SubSeq(line, 1, Len(line) - 1) ELSE line

\* the line opens a name:  '  "'
OpensName(line) == Len(line) >= 3 /\ SubSeq(line, 1, 3) = <<" ", " ", QUOTE>>

\* the position of the quote that closes the name, 0 when there is none
ClosingQuote(line) == FindFrom(line, QUOTE, 4)

\* the name is closed and followed by ': {'
OpensPayload(line) ==
    /\ OpensName(line)
    /\ ClosingQuote(line) # 0
    /\ Len(line) >= ClosingQuote(line) + 3
    /\ SubSeq(line, ClosingQuote(line), ClosingQuote(line) + 3)
          = <<QUOTE, ":", " ", "{">>

EndsInBrace(line) ==
    Len(WithoutComma(line)) > 0 /\ WithoutComma(line)[Len(WithoutComma(line))] = "}"

\* a name line whose name is missing its closing quote
NameUnterminated(line) == OpensName(line) /\ ClosingQuote(line) = 0

\* a payload line missing its closing brace
PayloadUnterminated(line) == OpensPayload(line) /\ ~EndsInBrace(line)

(***************************************************************************)
(* C3                                                                      *)
(***************************************************************************)

C3_Malformed(doc) ==
    \/ doc = <<>>
    \/ ~GoodFirstLine(doc)
    \/ \E k \in 1..NumLines(doc) : NameUnterminated(LineAt(doc, k))
    \/ \E k \in 1..NumLines(doc) : PayloadUnterminated(LineAt(doc, k))

\* C3: try_from returns a ParseError and no index for the empty input, for an
\* input that does not start with the line '{', for a document with a name
\* line whose name has no closing quote, and for a document with a payload
\* line that does not end in '}'.
C3_MalformedInputRejected ==
    (op = "try_from" /\ C3_Malformed(input))
        => (pc = "failed" /\ error # NoError /\ modinfo = <<>>)

\* a document with good wrapper lines and an unterminated payload was refused
C3_Witness ==
    /\ pc = "failed"
    /\ GoodFirstLine(input) /\ GoodLastLine(input)
    /\ \E k \in 1..NumLines(input) : PayloadUnterminated(LineAt(input, k))
    /\ ~\E k \in 1..NumLines(input) : NameUnterminated(LineAt(input, k))
    /\ error.message = "<json> element not terminated"

(***************************************************************************)
(* C8                                                                      *)
(***************************************************************************)

\* C8: a document that does not start with "{\n" fails at line 1, and a document
\* whose last line is not exactly '}' fails with the 1-based number of that
\* last line.
C8_WrapperErrorLine ==
    /\ (op = "try_from" /\ ~GoodFirstLine(input))
          => (pc = "failed" /\ error.lineno = 1)
    /\ (op = "try_from" /\ GoodFirstLine(input) /\ ~GoodLastLine(input))
          => (pc = "failed" /\ error.lineno = NumLines(input))

(***************************************************************************)
(* C9                                                                      *)
(***************************************************************************)

\* the message for a line, in the order of the checks; "none" for a line of
\* the shape   "NAME": { ... }[,]
C9_Message(line) ==
    IF ~OpensName(line) THEN "no <name> element"
    ELSE IF ClosingQuote(line) = 0 THEN "<name> element not terminated"
    ELSE IF ~OpensPayload(line) THEN "bad <name> terminator"
    ELSE IF ~EndsInBrace(line) THEN "<json> element not terminated"
    ELSE "none"

\* the numbers of the body lines that deviate from the shape
C9_Deviating(doc) ==
    {k \in 2..(NumLines(doc) - 1) : C9_Message(LineAt(doc, k)) # "none"}

C9_First(doc) == CHOOSE k \in C9_Deviating(doc) : \A j \in C9_Deviating(doc) : k <= j

\* C9: with good wrapper lines and a deviating body line, try_from returns no
\* index and the ParseError of the first deviating line: its 1-based number
\* in the document and the message of the first check it fails.
C9_FirstDeviatingLine ==
    (/\ op = "try_from"
     /\ GoodFirstLine(input) /\ GoodLastLine(input)
     /\ C9_Deviating(input) # {})
        => /\ pc = "failed"
           /\ modinfo = <<>>
           /\ error = ParseError(C9_First(input),
                                 C9_Message(LineAt(input, C9_First(input))))

\* the second body line is the first to deviate, and fails the last check only
C9_Witness ==
    /\ pc = "failed"
    /\ GoodFirstLine(input) /\ GoodLastLine(input)
    /\ C9_Deviating(input) # {}
    /\ C9_First(input) = 3
    /\ error = ParseError(3, "<json> element not terminated")

(***************************************************************************)
(* The entries as the document states them                                 *)
(***************************************************************************)

\* the name on an entry line: the text between the opening quote and the next
NameOnLine(line) == SubSeq(line, 4, ClosingQuote(line) - 1)

\* the position of the '{' that opens the payload of an entry line
PayloadStart(line) == ClosingQuote(line) + 3

\* braces opened minus braces closed in text[from..to]
Depth(text, from, to) ==
    Cardinality({i \in from..to : text[i] = "{"})
        - Cardinality({i \in from..to : text[i] = "}"})

\* the position of the '}' that matches the '{' at position open, 0 if none
MatchingBrace(text, open) ==
    LET closes == {p \in (open + 1)..Len(text) : Depth(text, open, p) = 0}
    IN IF closes = {} THEN 0
       ELSE CHOOSE p \in closes : \A q \in closes : p <= q

\* the text sub occurs in the text s
Contains(s, sub) ==
    \E i \in 1..(Len(s) - Len(sub) + 1) : SubSeq(s, i, i + Len(sub) - 1) = sub

\* the payload gives the module the name n:  "module_name": "n"
HasModuleName(json, n) == Contains(json, Field(K_module_name, Str(n)))

NonDecreasing(list) ==
    \A i, j \in 1..Len(list) : i < j => StrCmp(list[i], list[j]) # "Greater"

Listed(list, name) == \E i \in 1..Len(list) : list[i] = name

(***************************************************************************)
(* C1                                                                      *)
(***************************************************************************)

\* C1: on a built index, find(name) is None if and only if name is not among
\* module_names().
C1_NoneIffAbsent ==
    (pc = "built" /\ op = "find")
        => (~result.some <=> ~Listed(module_names(modinfo), query.name))

(***************************************************************************)
(* C2                                                                      *)
(***************************************************************************)

\* C2: for a document with n entries that try_from accepts, module_names()
\* returns the n names in the order of the document, and that order is
\* non-decreasing bytewise.
C2_NamesInOrderAndSorted ==
    (pc = "built" /\ op = "module_names")
        => /\ Len(names) = NumLines(input) - 2
           /\ \A i \in 1..Len(names) : names[i] = NameOnLine(LineAt(input, i + 1))
           /\ NonDecreasing(names)

(***************************************************************************)
(* C4                                                                      *)
(***************************************************************************)

\* {\n  "foo": { "module_name": "foo", "path": ["p"], "installed": [],
\* "class": ["c"] }\n}\n
ScenarioDocument ==
    Document(<<"{", NL>>, <<EntryLine(N_foo, ScenarioPayload, <<>>)>>, <<"}", NL>>)

\* C4: on the scenario document module_names() is ["foo"], find("foo") is a
\* decoded record with name "foo" and path ["p"], and find("bar") is None.
C4_Scenario ==
    (input = ScenarioDocument /\ pc # "start")
        => /\ pc = "built"
           /\ op = "module_names" => names = <<N_foo>>
           /\ (op = "find" /\ query.name = N_foo)
                 => /\ result.some /\ result.ok
                    /\ result.module.name = N_foo
                    /\ result.module.path = <<<<"p">>>>
           /\ (op = "find" /\ query.name = N_bar) => result = None

(***************************************************************************)
(* C5                                                                      *)
(***************************************************************************)

\* the index as try_from returned it
C5_Built == try_from(input).value

\* the index answers as it did when it was built: the names it lists and
\* what find returns for every name but the one just asked for (both are
\* functions of the index, so an unchanged index needs no comparison)
C5_SameAnswers ==
    \/ modinfo = C5_Built
    \/ /\ module_names(modinfo) = module_names(C5_Built)
       /\ \A n \in QueryNames \ {query.name}, impl \in SearchImpls :
             find(impl, modinfo, n) = find(impl, C5_Built, n)

\* the last operation was a find that located an entry whose payload does
\* not decode
C5_FoundUndecodable ==
    /\ pc = "built" /\ op = "find"
    /\ LET index == binary_search(query.impl, C5_Built, query.name)
       IN index >= 0 /\ ~from_str(C5_Built[index + 1][2]).ok

\* C5: a find that locates an entry whose payload does not decode returns
\* Some(Err(_)), which is not None, and while that result stands
\* module_names() and find of the other names return what they returned on
\* the index as built.
C5_DecodeFailureIsLocal ==
    /\ C5_FoundUndecodable => (result.some /\ ~result.ok /\ result # None)
    /\ (pc = "built" /\ result.some /\ ~result.ok) => C5_SameAnswers

\* a find has failed to decode an entry of an index that holds another name
C5_Witness ==
    /\ C5_FoundUndecodable
    /\ result.some /\ ~result.ok
    /\ \E i \in 1..Len(modinfo) : modinfo[i][1] # query.name

(***************************************************************************)
(* C6                                                                      *)
(***************************************************************************)

\* C6 as claimed: if find(n) returns Some(Ok(record)) for an entry name n,
\* record.name is n.
C6_RecordNameIsQuery ==
    (pc = "built" /\ op = "find" /\ result.some /\ result.ok)
        => result.module.name = query.name

\* C6: if find(n) returns Some(Ok(record)), the search has found an entry
\* named n and record.name is the module_name that entry's payload states,
\* whether or not that is n.
C6_RecordNameIsPayloadName ==
    (pc = "built" /\ op = "find" /\ result.some /\ result.ok)
        => LET index == binary_search(query.impl, modinfo, query.name)
           IN /\ index >= 0
              /\ modinfo[index + 1][1] = query.name
              /\ HasModuleName(modinfo[index + 1][2], result.module.name)

\* a record was decoded whose name is not the name it was found under, from
\* an index with more than one entry
C6_Witness ==
    /\ pc = "built" /\ op = "find" /\ result.some /\ result.ok
    /\ result.module.name # query.name
    /\ Len(modinfo) >= 2

(***************************************************************************)
(* C10                                                                     *)
(***************************************************************************)

\* C10 as claimed: each entry's payload runs from the opening '{' of its line
\* to the matching '}', and its name is the text between the opening quote
\* and the next quote.
C10_PayloadToMatchingBrace ==
    (op = "try_from" /\ pc = "built")
        => \A i \in 1..Len(modinfo) :
              LET line == LineAt(input, i + 1)
              IN /\ modinfo[i][1] = NameOnLine(line)
                 /\ modinfo[i][2] = SubSeq(line, PayloadStart(line),
                                          MatchingBrace(line, PayloadStart(line)))

\* C10: each entry's payload runs from the opening '{' of its line to the end
\* of the line less one trailing comma, and ends in '}' (not necessarily the
\* brace that matches the opening one); its name is the text between the
\* opening quote and the next quote.
C10_PayloadToEndOfLine ==
    (op = "try_from" /\ pc = "built")
        => /\ Len(modinfo) = NumLines(input) - 2
           /\ \A i \in 1..Len(modinfo) :
                 LET line == LineAt(input, i + 1)
                     rest == SubSeq(line, PayloadStart(line), Len(line))
                 IN /\ modinfo[i][1] = NameOnLine(line)
                    /\ modinfo[i][2] = WithoutComma(rest)
                    /\ modinfo[i][2][1] = "{"
                    /\ modinfo[i][2][Len(modinfo[i][2])] = "}"

\* an index with an entry from a line that ends in a comma and whose payload
\* goes on after the brace matching its opening brace
C10_Witness ==
    /\ op = "try_from" /\ pc = "built"
    /\ \E i \in 1..Len(modinfo) :
          LET line == LineAt(input, i + 1)
          IN /\ line[Len(line)] = ","
             /\ MatchingBrace(line, PayloadStart(line)) < Len(line) - 1

(***************************************************************************)
(* C7                                                                      *)
(***************************************************************************)

\* the text after the leading blanks of a line
Unindented(line) == SubSeq(line, SkipWhile(line, 1, "blank"), Len(line))

\* the block has a line   name: "<name>"   with exactly that quoted name
HasNameLine(block, name) ==
    \E k \in 1..NumLines(block) :
        LET prefix == <<"n", "a", "m", "e", ":", " ">> \o Str(name)
            text == Unindented(LineAt(block, k))
        IN Len(text) >= Len(prefix) /\ SubSeq(text, 1, Len(prefix)) = prefix

\* the rule blocks of the text, in the order of the text
BlocksOf(doc) ==
    LET caps == captures_iter(doc, 1)
    IN [i \in 1..Len(caps) |-> SubSeq(doc, caps[i][1], caps[i][2])]

\* C7: find_module_source returns the first rule block, from its identifier
\* to the first '}' at column 0, that has a line name: "<name>" with exactly
\* the name asked for, and None when no block has such a line.
C7_FirstBlockNamed ==
    op = "find_module_source"
        => LET blocks == BlocksOf(haystack)
               named == {i \in 1..Len(blocks) : HasNameLine(blocks[i], needle)}
           IN IF named = {} THEN source = NoSource
              ELSE /\ source.some
                   /\ source.text
                         = blocks[CHOOSE i \in named : \A j \in named : i <= j]
                   /\ IsIdent(source.text[1])
                   /\ source.text[Len(source.text)] = "}"
====
